---- MODULE Spec2Model ----
(***************************************************************************)
(* Phone-Controller: the two PC agents that connect outbound to a          *)
(* WebSocket relay and execute the commands relayed from the phone.        *)
(*                                                                         *)
(*   variant = "relay" : the relay agent, src/pc_agent.py                  *)
(*                       (connect_relay, handle_command)                   *)
(*   variant = "ai"    : the AI/NLP agent, src/pc_agent_relay.py           *)
(*                       (main, connect_to_relay, handle_relay_message,    *)
(*                       ENHANCED_HANDLERS)                                *)
(*                                                                         *)
(* The agent is one coroutine; pc is its position.  The relay and the      *)
(* operator are the environment: they deliver frames, close the transport  *)
(* and interrupt the process.                                              *)
(***************************************************************************)
EXTENDS Integers, Sequences, FiniteSets, TLC

VARIABLES
    variant,          \* which agent program runs: "relay" or "ai"
    pc,               \* position of the agent coroutine
    exc,              \* class of the exception being propagated ("none" if none)
    reconnect_delay,  \* the local reconnect_delay, in units of 1/Unit second
    transport,        \* remote side of the current connection
    openConns,        \* connections opened by the agent and not yet closed by it
    inbox,            \* frames received by the library, not yet read by the loop
    readCount,        \* frames of this connection the loop has read
    doneCount,        \* frames of this connection whose handling has completed
    dispatching,      \* frames in dispatch: <<[seq, raw, stage, calls, backend, resp, delivered]>>
    sentReg,          \* registration/auth frames sent on this connection
    sentOther,        \* TRUE once any other frame was sent on this connection
    fails,            \* consecutive failures since the last registration (saturating)
    attempt,          \* "none", "first" or "retry": the latest connection attempt
    prevReady,        \* TRUE iff the latest opened connection was registered
    lastWait,         \* time slept since the session last became Disconnected (0: none)
    enabled,          \* ai_processor.enabled
    translation       \* a call of a translator on its own: function, text, result

vars == <<variant, pc, exc, reconnect_delay, transport, openConns, inbox,
          readCount, doneCount, dispatching, sentReg, sentOther, fails,
          attempt, prevReady, lastWait, enabled, translation>>

----------------------------------------------------------------------------
(* Bounds of the model *)

MaxQueue == 2          \* frames buffered by the library at once
MaxFrames == 2         \* frames the relay delivers on one connection
MaxSub == 2            \* sub-commands of one ai_command that reach the backend
FailCap == 9           \* the failure counter saturates here

----------------------------------------------------------------------------
(* Reconnect delay arithmetic.  Python computes reconnect_delay * 1.5 in   *)
(* binary floating point; every value 5 * 1.5^k below 60 is a dyadic       *)
(* rational with denominator at most 2^6, so delays are kept exactly as    *)
(* integers counting 1/Unit seconds.                                       *)

Unit == 2 ^ 6

floor_delay == 5
max_reconnect_delay == 60
BackoffNum == 3
BackoffDen == 2
ai_reconnect_delay == 5

Min(a, b) == IF a <= b THEN a ELSE b

\* NextDelay with the growth factor 2 in place of 1.5
NextDelayDoubling(d) ==
    IF d * 2 >= max_reconnect_delay * Unit
    THEN max_reconnect_delay * Unit
    ELSE d * 2

\* min(reconnect_delay * 1.5, max_reconnect_delay)
NextDelay(d) ==
    IF d * BackoffNum >= max_reconnect_delay * Unit * BackoffDen
    THEN max_reconnect_delay * Unit
    ELSE (d * BackoffNum) \div BackoffDen

----------------------------------------------------------------------------
(* Frames.  A frame is the text the relay sends; JsonLoads is json.loads   *)
(* on that text.                                                           *)

RawFrames ==
    { "{bad",
      "[1,2]",
      "42",
      "\"hi\"",
      "true",
      "null",
      "{\"ok\":false,\"error\":\"bad token\"}",
      "{\"type\":\"click\",\"x\":10,\"y\":20}",
      "{\"type\":\"partner_connected\"}",
      "{\"type\":\"relay_status\",\"phone_connected\":true}",
      "{\"type\":\"auth\"}",
      "{\"type\":\"dance\"}",
      "{\"x\":1,\"y\":2}" }

\* The natural-language texts of the ai_command frames.  They hold no
\* character that JSON escapes.
Utterances ==
    { "", "   ", "?!", "open chrome", "Open Google Chrome", "check gmail",
      "go to YouTube", "github", "click 100,200", "right click at 10 20",
      "move to 5,  7", "move mouse", "  Type Hello  ", "barcode 12 34",
      "lock my computer", "shutdown", "open notepad; rm -rf /",
      "run evil.exe && format c: | $HOME", "launch_arbitrary_binary",
      "click 7", "a12b 3,x 44 5 move" }

\* json.dumps({'type': 'ai_command', 'text': t})
AICommandFrame(t) == "{\"type\":\"ai_command\",\"text\":\"" \o t \o "\"}"

\* The command frames of the AI agent
CommandFrames ==
    {AICommandFrame(t) : t \in Utterances}
       \cup { "{\"type\":\"system_command\",\"action\":\"launch_arbitrary_binary\"}",
              "{\"type\":\"system_command\",\"action\":\"lock\"}",
              "{\"type\":\"open_app\",\"target\":\"evil.exe\"}",
              "{\"type\":\"open_app\",\"target\":\"notepad\"}",
              "{\"type\":\"open_app\"}",
              "{\"type\":\"click\",\"x\":10,\"y\":20}",
              "{\"type\":\"dance\"}" }

\* Command frames of both agents: pointer commands inside and outside the
\* screen, and text commands with a text, an empty text and no text.
DispatchFrames ==
    { "{\"type\":\"click\",\"x\":10,\"y\":20}",
      "{\"type\":\"click\",\"x\":-5,\"y\":20}",
      "{\"type\":\"click\",\"x\":5000,\"y\":20}",
      "{\"type\":\"move\",\"x\":30,\"y\":40}",
      "{\"type\":\"move\",\"x\":10,\"y\":2000}",
      "{\"type\":\"move\",\"x\":-1,\"y\":-1}",
      "{\"type\":\"type\",\"text\":\"hi\"}",
      "{\"type\":\"type\",\"text\":\"\"}",
      "{\"type\":\"type\"}",
      "{\"type\":\"keyboard_type\",\"text\":\"\"}",
      "{\"type\":\"ai_command\",\"text\":\"\"}",
      "{\"type\":\"ai_command\"}" }

\* json.loads(msg): [err |-> TRUE, msg |-> str(e)] when JSONDecodeError is
\* raised, else the decoded value with its JSON type: a dict in obj; for a
\* list read by the translator, its items, and dicts telling whether every
\* item is a dict.
JsonLoads(raw) ==
    CASE raw = "{bad" ->
           [err |-> TRUE,
            msg |-> "Expecting property name enclosed in double quotes: line 1 column 2 (char 1)"]
      [] raw = "[1,2]"    -> [err |-> FALSE, jtype |-> "list"]
      [] raw = "42"       -> [err |-> FALSE, jtype |-> "int"]
      [] raw = "\"hi\""   -> [err |-> FALSE, jtype |-> "str"]
      [] raw = "true"     -> [err |-> FALSE, jtype |-> "bool"]
      [] raw = "null"     -> [err |-> FALSE, jtype |-> "NoneType"]
      [] raw = "{\"ok\":false,\"error\":\"bad token\"}" ->
           [err |-> FALSE, jtype |-> "dict",
            obj |-> [ok |-> FALSE, error |-> "bad token"]]
      [] raw = "{\"type\":\"click\",\"x\":10,\"y\":20}" ->
           [err |-> FALSE, jtype |-> "dict",
            obj |-> [type |-> "click", x |-> 10, y |-> 20]]
      [] raw = "{\"type\":\"partner_connected\"}" ->
           [err |-> FALSE, jtype |-> "dict",
            obj |-> [type |-> "partner_connected"]]
      [] raw = "{\"type\":\"relay_status\",\"phone_connected\":true}" ->
           [err |-> FALSE, jtype |-> "dict",
            obj |-> [type |-> "relay_status", phone_connected |-> TRUE]]
      [] raw = "{\"type\":\"auth\"}" ->
           [err |-> FALSE, jtype |-> "dict", obj |-> [type |-> "auth"]]
      [] raw = "{\"type\":\"dance\"}" ->
           [err |-> FALSE, jtype |-> "dict", obj |-> [type |-> "dance"]]
      [] raw = "{\"x\":1,\"y\":2}" ->
           [err |-> FALSE, jtype |-> "dict", obj |-> [x |-> 1, y |-> 2]]
      [] \E t \in Utterances : raw = AICommandFrame(t) ->
           [err |-> FALSE, jtype |-> "dict",
            obj |-> [type |-> "ai_command",
                     text |-> CHOOSE t \in Utterances : raw = AICommandFrame(t)]]
      [] raw = "{\"type\":\"system_command\",\"action\":\"lock\"}" ->
           [err |-> FALSE, jtype |-> "dict",
            obj |-> [type |-> "system_command", action |-> "lock"]]
      [] raw = "{\"type\":\"open_app\",\"target\":\"notepad\"}" ->
           [err |-> FALSE, jtype |-> "dict",
            obj |-> [type |-> "open_app", target |-> "notepad"]]
      [] raw = "{\"type\":\"open_app\"}" ->
           [err |-> FALSE, jtype |-> "dict", obj |-> [type |-> "open_app"]]
      [] raw = "{\"type\":\"system_command\",\"action\":\"launch_arbitrary_binary\"}" ->
           [err |-> FALSE, jtype |-> "dict",
            obj |-> [type |-> "system_command",
                     action |-> "launch_arbitrary_binary"]]
      [] raw = "{\"type\":\"open_app\",\"target\":\"evil.exe\"}" ->
           [err |-> FALSE, jtype |-> "dict",
            obj |-> [type |-> "open_app", target |-> "evil.exe"]]
      [] raw = "{\"type\":\"click\",\"x\":-5,\"y\":20}" ->
           [err |-> FALSE, jtype |-> "dict",
            obj |-> [type |-> "click", x |-> -5, y |-> 20]]
      [] raw = "{\"type\":\"click\",\"x\":5000,\"y\":20}" ->
           [err |-> FALSE, jtype |-> "dict",
            obj |-> [type |-> "click", x |-> 5000, y |-> 20]]
      [] raw = "{\"type\":\"move\",\"x\":30,\"y\":40}" ->
           [err |-> FALSE, jtype |-> "dict",
            obj |-> [type |-> "move", x |-> 30, y |-> 40]]
      [] raw = "{\"type\":\"move\",\"x\":10,\"y\":2000}" ->
           [err |-> FALSE, jtype |-> "dict",
            obj |-> [type |-> "move", x |-> 10, y |-> 2000]]
      [] raw = "{\"type\":\"move\",\"x\":-1,\"y\":-1}" ->
           [err |-> FALSE, jtype |-> "dict",
            obj |-> [type |-> "move", x |-> -1, y |-> -1]]
      [] raw = "{\"type\":\"type\",\"text\":\"hi\"}" ->
           [err |-> FALSE, jtype |-> "dict",
            obj |-> [type |-> "type", text |-> "hi"]]
      [] raw = "{\"type\":\"type\",\"text\":\"\"}" ->
           [err |-> FALSE, jtype |-> "dict",
            obj |-> [type |-> "type", text |-> ""]]
      [] raw = "{\"type\":\"type\"}" ->
           [err |-> FALSE, jtype |-> "dict", obj |-> [type |-> "type"]]
      [] raw = "{\"type\":\"keyboard_type\",\"text\":\"\"}" ->
           [err |-> FALSE, jtype |-> "dict",
            obj |-> [type |-> "keyboard_type", text |-> ""]]
      [] raw = "{\"type\":\"ai_command\"}" ->
           [err |-> FALSE, jtype |-> "dict", obj |-> [type |-> "ai_command"]]
      \* texts of the translation service
      [] raw = "{\"intent\": \"open_app\", \"target\": \"chrome\"}" ->
           [err |-> FALSE, jtype |-> "dict",
            obj |-> [intent |-> "open_app", target |-> "chrome"]]
      [] raw = "[{\"intent\": \"open_app\", \"target\": \"chrome\"}, {\"intent\": \"navigate_url\", \"target\": \"google.com\"}]" ->
           [err |-> FALSE, jtype |-> "list", dicts |-> TRUE,
            items |-> << [intent |-> "open_app", target |-> "chrome"],
                         [intent |-> "navigate_url", target |-> "google.com"] >>]
      [] raw = "{\"intent\": \"system_command\", \"action\": \"lock\"}" ->
           [err |-> FALSE, jtype |-> "dict",
            obj |-> [intent |-> "system_command", action |-> "lock"]]
      [] raw = "{\"intent\": \"open_app\", \"target\": \"evil.exe\"}" ->
           [err |-> FALSE, jtype |-> "dict",
            obj |-> [intent |-> "open_app", target |-> "evil.exe"]]
      [] raw = "[{\"intent\": \"mouse_click\", \"x\": 1, \"y\": 2}, {\"intent\": \"system_command\", \"action\": \"format_disk\"}]" ->
           [err |-> FALSE, jtype |-> "list", dicts |-> TRUE,
            items |-> << [intent |-> "mouse_click", x |-> 1, y |-> 2],
                         [intent |-> "system_command",
                          action |-> "format_disk"] >>]
      [] raw = "I cannot help with that." ->
           [err |-> TRUE,
            msg |-> "Expecting value: line 1 column 1 (char 0)"]
      [] raw = "{\"intent\": \"mouse_move\", \"x\": 960, \"y\": 540}, {\"intent\": \"mouse_click\", \"button\": \"right\"}" ->
           [err |-> TRUE, msg |-> "Extra data: line 1 column 45 (char 44)"]
      [] raw = "[{\"intent\": \"fly\"}, {\"intent\": \"keyboard_type\", \"text\": \"hi\"}]" ->
           [err |-> FALSE, jtype |-> "list", dicts |-> TRUE,
            items |-> << [intent |-> "fly"],
                         [intent |-> "keyboard_type", text |-> "hi"] >>]
      [] raw = "[{\"intent\": \"navigate_url\"}, {\"intent\": \"keyboard_type\", \"text\": \"hi\"}]" ->
           [err |-> FALSE, jtype |-> "list", dicts |-> TRUE,
            items |-> << [intent |-> "navigate_url"],
                         [intent |-> "keyboard_type", text |-> "hi"] >>]
      [] raw = "[{\"intent\": \"system_command\", \"action\": \"format_disk\"}, {\"intent\": \"navigate_url\"}]" ->
           [err |-> FALSE, jtype |-> "list", dicts |-> TRUE,
            items |-> << [intent |-> "system_command",
                          action |-> "format_disk"],
                         [intent |-> "navigate_url"] >>]
      [] raw = "\"hello\"" -> [err |-> FALSE, jtype |-> "str"]
      [] raw = "[]" ->
           [err |-> FALSE, jtype |-> "list", dicts |-> TRUE, items |-> <<>>]
      [] raw = "[1]" ->
           [err |-> FALSE, jtype |-> "list", dicts |-> FALSE, items |-> <<1>>]

\* key in data
Has(obj, k) == k \in DOMAIN obj

\* data.get('type'), with Python's None printed as "None"
TypeOf(obj) == IF Has(obj, "type") THEN obj.type ELSE "None"

\* str(e) of the AttributeError raised by data.get on a non-dict value
AttributeErrorMsg(jtype) == "'" \o jtype \o "' object has no attribute 'get'"

----------------------------------------------------------------------------
(* The Input Backend (pyautogui).  A call succeeds, is aborted by the       *)
(* failsafe gesture (FailSafeException) or fails with another exception.   *)

BackendOutcomes == {"ok", "failsafe", "error"}

\* str(e) of the exception a failing backend call raises
BackendMsg(bk) ==
    IF bk = "failsafe" THEN "PyAutoGUI fail-safe triggered"
                       ELSE "backend call failed"

SCREEN_WIDTH == 1920
SCREEN_HEIGHT == 1080

OutOfBounds(x, y) == x < 0 \/ y < 0 \/ x > SCREEN_WIDTH \/ y > SCREEN_HEIGHT

\* What the handling of one frame produced:
\*   calls     the dispatch functions / handlers that were invoked
\*   backend   the Input Backend calls that were made
\*   resp      the response envelopes handed to websocket.send
\*   raised    str(e) of the exception a handler raised ("" if none did)
\*   cmds      the commands an ai_command was translated into
\*   results   the envelopes the sub-commands of an ai_command returned
\* (an entry of `dispatching` also keeps ai, the answer of the translation
\* service when it was called)
Outcome(calls, backend, resp) ==
    [calls |-> calls, backend |-> backend, resp |-> resp, raised |-> "",
     cmds |-> <<>>, results |-> <<>>]

Raised(calls, backend, resp, msg) ==
    [calls |-> calls, backend |-> backend, resp |-> resp, raised |-> msg,
     cmds |-> <<>>, results |-> <<>>]

----------------------------------------------------------------------------
(* pc_agent.py *)

\* A pyautogui call made by handle_command: an exception it raises is
\* caught by the except clauses of handle_command, which print.
RelayBackendCall(call, bk) ==
    IF bk = "ok"
    THEN Outcome(<<"handle_command">>, <<call>>, <<>>)
    ELSE Raised(<<"handle_command">>, <<call>>, <<>>, BackendMsg(bk))

\* handle_command(data): one function with a branch per command type; it
\* returns None on every path and never sends on the connection.
handle_command(data, bk) ==
    LET cmd_type == TypeOf(data)
        hasXY == Has(data, "x") /\ Has(data, "y")
        nothing == Outcome(<<"handle_command">>, <<>>, <<>>)
    IN
    CASE cmd_type = "click" ->
           IF hasXY /\ OutOfBounds(data.x, data.y)
           THEN nothing
           ELSE IF hasXY
           THEN RelayBackendCall([op |-> "click", x |-> data.x, y |-> data.y], bk)
           ELSE RelayBackendCall([op |-> "click"], bk)
      [] cmd_type = "move" ->
           IF hasXY /\ ~OutOfBounds(data.x, data.y)
           THEN RelayBackendCall([op |-> "moveTo", x |-> data.x, y |-> data.y], bk)
           ELSE nothing
      [] cmd_type = "type" ->
           IF Has(data, "text") /\ data.text # ""
           THEN RelayBackendCall([op |-> "write", text |-> data.text], bk)
           ELSE nothing
      [] cmd_type = "scroll" ->
           RelayBackendCall([op |-> "scroll",
                             clicks |-> IF Has(data, "clicks") THEN data.clicks
                                                                ELSE 1], bk)
      [] cmd_type = "key" ->
           IF Has(data, "key") /\ data.key # ""
           THEN RelayBackendCall([op |-> "press", key |-> data.key], bk)
           ELSE nothing
      [] cmd_type = "hotkey" ->
           IF Has(data, "keys") /\ data.keys # <<>>
           THEN RelayBackendCall([op |-> "hotkey", keys |-> data.keys], bk)
           ELSE nothing
      [] cmd_type \in {"partner_connected", "partner_disconnected"} ->
           nothing
      [] OTHER ->
           \* print("Unknown command type")
           nothing

\* The body of the receive loop of connect_relay for one message.
RelayLoopBody(raw, bk) ==
    LET d == JsonLoads(raw) IN
    IF d.err
    THEN \* except json.JSONDecodeError: print
         Outcome(<<>>, <<>>, <<>>)
    ELSE IF d.jtype # "dict"
    THEN \* data.get raises AttributeError; except Exception: print
         Outcome(<<>>, <<>>, <<>>)
    ELSE IF TypeOf(d.obj) \in {"partner_connected", "partner_disconnected"}
    THEN handle_command(d.obj, bk)
    ELSE IF Has(d.obj, "ok")
    THEN \* print("System: ...")
         Outcome(<<>>, <<>>, <<>>)
    ELSE handle_command(d.obj, bk)

----------------------------------------------------------------------------
(* Python str operations, on TLA+ strings *)

Char(s, i) == SubSeq(s, i, i)

UpperChars == "ABCDEFGHIJKLMNOPQRSTUVWXYZ"
LowerChars == "abcdefghijklmnopqrstuvwxyz"
DigitChars == "0123456789"

\* c in chars, for a one-character string c
CharIn(c, chars) == \E i \in 1..Len(chars) : Char(chars, i) = c

IndexIn(c, chars) == CHOOSE i \in 1..Len(chars) : Char(chars, i) = c

IsSpace(c) == c \in {" ", "\t", "\n", "\r", "\f"}
IsDigit(c) == CharIn(c, DigitChars)

LowerChar(c) ==
    IF CharIn(c, UpperChars) THEN Char(LowerChars, IndexIn(c, UpperChars))
                             ELSE c

RECURSIVE StrLower(_)
\* s.lower(), computed by halves
StrLower(s) ==
    IF Len(s) = 0 THEN ""
    ELSE IF Len(s) = 1 THEN LowerChar(s)
    ELSE StrLower(SubSeq(s, 1, Len(s) \div 2))
            \o StrLower(SubSeq(s, Len(s) \div 2 + 1, Len(s)))

RECURSIVE LStrip(_)
LStrip(s) ==
    IF Len(s) > 0 /\ IsSpace(Head(s)) THEN LStrip(Tail(s)) ELSE s

RECURSIVE RStrip(_)
RStrip(s) ==
    IF Len(s) > 0 /\ IsSpace(Char(s, Len(s)))
    THEN RStrip(SubSeq(s, 1, Len(s) - 1))
    ELSE s

\* s.strip()
StrStrip(s) == RStrip(LStrip(s))

\* s.startswith(prefix)
StartsWith(s, prefix) ==
    Len(s) >= Len(prefix) /\ SubSeq(s, 1, Len(prefix)) = prefix

\* sub in s
Contains(sub, s) ==
    \E i \in 1..(Len(s) - Len(sub) + 1) : SubSeq(s, i, i + Len(sub) - 1) = sub

RECURSIVE StrToInt(_)
\* int(s) for a non-empty string of decimal digits
StrToInt(s) ==
    IF Len(s) = 0 THEN 0
    ELSE 10 * StrToInt(SubSeq(s, 1, Len(s) - 1))
           + (IndexIn(Char(s, Len(s)), DigitChars) - 1)

RECURSIVE DigitsEnd(_, _)
\* The position after the longest run of digits that starts at i.
DigitsEnd(s, i) ==
    IF i <= Len(s) /\ IsDigit(Char(s, i)) THEN DigitsEnd(s, i + 1) ELSE i

RECURSIVE SpacesEnd(_, _)
\* The position after the longest run of whitespace that starts at i.
SpacesEnd(s, i) ==
    IF i <= Len(s) /\ IsSpace(Char(s, i)) THEN SpacesEnd(s, i + 1) ELSE i

\* r'(\d+)[, ]\s*(\d+)' matches at position i of s
CoordMatchAt(s, i) ==
    LET j == DigitsEnd(s, i)          \* after group 1
        k == SpacesEnd(s, j + 1)      \* after the separator and \s*
    IN /\ j > i
       /\ j <= Len(s)
       /\ Char(s, j) \in {",", " "}
       /\ DigitsEnd(s, k) > k

\* re.search(r'(\d+)[, ]\s*(\d+)', s): the leftmost match, as
\* [found, x, y] with x, y the two groups converted by int()
CoordSearch(s) ==
    LET starts == {i \in 1..Len(s) : CoordMatchAt(s, i)} IN
    IF starts = {}
    THEN [found |-> FALSE, x |-> 0, y |-> 0]
    ELSE LET i == CHOOSE a \in starts : \A b \in starts : a <= b
             j == DigitsEnd(s, i)
             k == SpacesEnd(s, j + 1)
         IN [found |-> TRUE,
             x |-> StrToInt(SubSeq(s, i, j - 1)),
             y |-> StrToInt(SubSeq(s, k, DigitsEnd(s, k) - 1))]

----------------------------------------------------------------------------
(* PatternMatcher of pc_agent_relay.py.  Confidence values are kept in     *)
(* hundredths (0.7 is 70).                                                 *)

\* self.approved_apps, in insertion order (the order of iteration)
approved_apps ==
    << <<"chrome", "chrome">>, <<"browser", "chrome">>,
       <<"google chrome", "chrome">>, <<"notepad", "notepad">>,
       <<"calculator", "calc">>, <<"paint", "mspaint">>,
       <<"file explorer", "explorer">>, <<"explorer", "explorer">>,
       <<"files", "explorer">>, <<"word", "winword">>, <<"excel", "excel">>,
       <<"powerpoint", "powerpnt">>, <<"vs code", "code">>,
       <<"code", "code">>, <<"command prompt", "cmd">>,
       <<"terminal", "cmd">>, <<"task manager", "taskmgr">>,
       <<"control panel", "control">>, <<"mail", "outlookmail:">> >>

\* self.websites, in insertion order
websites ==
    << <<"youtube", "youtube.com">>, <<"google", "google.com">>,
       <<"github", "github.com">>, <<"facebook", "facebook.com">>,
       <<"twitter", "twitter.com">>, <<"reddit", "reddit.com">>,
       <<"gmail", "gmail.com">>, <<"outlook", "outlook.com">>,
       <<"amazon", "amazon.com">>, <<"render", "render.com">> >>

\* approved_apps.values()
ApprovedAppValues == {approved_apps[i][2] : i \in 1..Len(approved_apps)}

\* The indices of the entries of a table whose key occurs in text
Matches(table, text) ==
    {i \in 1..Len(table) : Contains(table[i][1], text)}

\* The first entry, in iteration order, whose key occurs in text
FirstMatch(table, text) ==
    LET m == Matches(table, text) IN
    table[CHOOSE i \in m : \A j \in m : i <= j]

\* The `# Default to typing` command
DefaultTyping(text) ==
    [intent |-> "keyboard_type", text |-> text, original_text |-> text,
     ai_processed |-> FALSE, confidence |-> 30]

\* parse_command without the final `# Default to typing` append
parse_command_without_default(raw_text) ==
    LET text == StrStrip(StrLower(raw_text))
        coord_match == CoordSearch(text)
    IN
    IF Matches(approved_apps, text) # {}
    THEN << [intent |-> "open_app",
             target |-> FirstMatch(approved_apps, text)[2],
             original_text |-> text, ai_processed |-> FALSE,
             confidence |-> 70] >>
    ELSE IF Matches(websites, text) # {}
    THEN << [intent |-> "navigate_url",
             target |-> FirstMatch(websites, text)[2],
             original_text |-> text, ai_processed |-> FALSE,
             confidence |-> 70] >>
    ELSE IF coord_match.found
            /\ (Contains("click", text) \/ Contains("move", text))
    THEN IF Contains("click", text)
         THEN << [intent |-> "mouse_click",
                  x |-> coord_match.x, y |-> coord_match.y,
                  button |-> IF Contains("right", text) THEN "right"
                                                        ELSE "left",
                  original_text |-> text, ai_processed |-> FALSE,
                  confidence |-> 80] >>
         ELSE << [intent |-> "mouse_move",
                  x |-> coord_match.x, y |-> coord_match.y,
                  original_text |-> text, ai_processed |-> FALSE,
                  confidence |-> 80] >>
    ELSE <<>>

\* PatternMatcher.parse_command(text)
parse_command(raw_text) ==
    LET text == StrStrip(StrLower(raw_text))
        coord_match == CoordSearch(text)
    IN
    IF Matches(approved_apps, text) # {}
    THEN << [intent |-> "open_app",
             target |-> FirstMatch(approved_apps, text)[2],
             original_text |-> text, ai_processed |-> FALSE,
             confidence |-> 70] >>
    ELSE IF Matches(websites, text) # {}
    THEN << [intent |-> "navigate_url",
             target |-> FirstMatch(websites, text)[2],
             original_text |-> text, ai_processed |-> FALSE,
             confidence |-> 70] >>
    ELSE IF coord_match.found
            /\ (Contains("click", text) \/ Contains("move", text))
    THEN IF Contains("click", text)
         THEN << [intent |-> "mouse_click",
                  x |-> coord_match.x, y |-> coord_match.y,
                  button |-> IF Contains("right", text) THEN "right"
                                                        ELSE "left",
                  original_text |-> text, ai_processed |-> FALSE,
                  confidence |-> 80] >>
         ELSE << [intent |-> "mouse_move",
                  x |-> coord_match.x, y |-> coord_match.y,
                  original_text |-> text, ai_processed |-> FALSE,
                  confidence |-> 80] >>
    ELSE << DefaultTyping(text) >>

----------------------------------------------------------------------------
(* pc_agent_relay.py *)

ENHANCED_HANDLERS ==
    { "open_app", "navigate_url", "mouse_click", "mouse_move", "mouse_scroll",
      "keyboard_type", "keyboard_press", "system_command",
      "click", "type", "move", "ai_command" }

\* handle_mouse_click(payload) -> envelope
handle_mouse_click(payload, bk) ==
    LET call == IF Has(payload, "x") /\ Has(payload, "y")
                THEN [op |-> "click", x |-> payload.x, y |-> payload.y]
                ELSE [op |-> "click"]
    IN CASE bk = "failsafe" ->
              Outcome(<<"handle_mouse_click">>, <<call>>,
                      <<[ok |-> FALSE, error |-> "Failsafe triggered"]>>)
         [] bk = "error" ->
              Raised(<<"handle_mouse_click">>, <<call>>, <<>>, BackendMsg(bk))
         [] OTHER ->
              Outcome(<<"handle_mouse_click">>, <<call>>, <<[ok |-> TRUE]>>)

\* payload.get(k, default)
Get(payload, k, default) == IF Has(payload, k) THEN payload[k] ELSE default

\* A handler body `try: <pyautogui calls> return {'ok': True}
\* except pyautogui.FailSafeException: return {'ok': False, ...}`: the
\* outcome bk falls on the first call; any other exception leaves the handler.
GuardedCalls(name, backend, bk) ==
    CASE bk = "failsafe" ->
           Outcome(<<name>>, <<Head(backend)>>,
                   <<[ok |-> FALSE, error |-> "Failsafe triggered"]>>)
      [] bk = "error" ->
           Raised(<<name>>, <<Head(backend)>>, <<>>, BackendMsg(bk))
      [] OTHER ->
           Outcome(<<name>>, backend, <<[ok |-> TRUE]>>)

\* handle_open_app(payload); bk is the outcome of subprocess.Popen
handle_open_app(payload, bk) ==
    LET app == Get(payload, "target", "None") IN
    IF app \in ApprovedAppValues
    THEN IF bk = "ok"
         THEN Outcome(<<"handle_open_app">>, <<[op |-> "Popen", app |-> app]>>,
                      <<[ok |-> TRUE, message |-> "Launched " \o app]>>)
         ELSE Outcome(<<"handle_open_app">>, <<[op |-> "Popen", app |-> app]>>,
                      <<[ok |-> FALSE, error |-> "Failed to launch " \o app]>>)
    ELSE Outcome(<<"handle_open_app">>, <<>>,
                 <<[ok |-> FALSE, error |-> "Application not approved"]>>)

\* handle_navigate_url(payload); url.startswith is outside the try
handle_navigate_url(payload, bk) ==
    IF ~Has(payload, "target")
    THEN Raised(<<"handle_navigate_url">>, <<>>, <<>>,
                "'NoneType' object has no attribute 'startswith'")
    ELSE LET url == IF StartsWith(payload.target, "http://")
                       \/ StartsWith(payload.target, "https://")
                    THEN payload.target
                    ELSE "https://" \o payload.target
         IN IF bk = "ok"
            THEN Outcome(<<"handle_navigate_url">>,
                         <<[op |-> "Popen", url |-> url]>>,
                         <<[ok |-> TRUE, message |-> "Opened " \o url]>>)
            ELSE Outcome(<<"handle_navigate_url">>,
                         <<[op |-> "Popen", url |-> url]>>,
                         <<[ok |-> FALSE, error |-> "Failed to open " \o url]>>)

\* handle_mouse_move(payload)
handle_mouse_move(payload, bk) ==
    IF Has(payload, "x") /\ Has(payload, "y")
    THEN GuardedCalls("handle_mouse_move",
                      <<[op |-> "moveTo", x |-> payload.x, y |-> payload.y]>>,
                      bk)
    ELSE Outcome(<<"handle_mouse_move">>, <<>>,
                 <<[ok |-> FALSE, error |-> "Missing coordinates"]>>)

\* handle_mouse_scroll(payload)
handle_mouse_scroll(payload, bk) ==
    LET clicks == Get(payload, "clicks", 3) IN
    GuardedCalls("handle_mouse_scroll",
                 <<[op |-> "scroll",
                    clicks |-> IF Get(payload, "direction", "down") = "down"
                               THEN 0 - clicks ELSE clicks]>>,
                 bk)

\* handle_keyboard_type(payload)
handle_keyboard_type(payload, bk) ==
    GuardedCalls("handle_keyboard_type",
                 <<[op |-> "write", text |-> Get(payload, "text", "")]>>
                    \o (IF Has(payload, "then_press")
                        THEN <<[op |-> "press", key |-> payload.then_press]>>
                        ELSE <<>>),
                 bk)

\* handle_keyboard_press(payload)
handle_keyboard_press(payload, bk) ==
    GuardedCalls("handle_keyboard_press",
                 <<[op |-> "press", key |-> Get(payload, "key", "None")]>>, bk)

\* The keys of `commands` in handle_system_command
SystemActions == {"lock", "sleep", "shutdown", "restart"}

\* handle_system_command without the `if action in commands` test
handle_system_command_unchecked(payload, bk) ==
    LET action == Get(payload, "action", "None") IN
    IF bk = "ok"
    THEN Outcome(<<"handle_system_command">>,
                 <<[op |-> "run", action |-> action]>>,
                 <<[ok |-> TRUE, message |-> "Executed " \o action]>>)
    ELSE Outcome(<<"handle_system_command">>,
                 <<[op |-> "run", action |-> action]>>,
                 <<[ok |-> FALSE, error |-> "Failed to " \o action]>>)

\* handle_system_command(payload); bk is the outcome of subprocess.run
handle_system_command(payload, bk) ==
    LET action == Get(payload, "action", "None") IN
    IF action \in SystemActions
    THEN IF bk = "ok"
         THEN Outcome(<<"handle_system_command">>,
                      <<[op |-> "run", action |-> action]>>,
                      <<[ok |-> TRUE, message |-> "Executed " \o action]>>)
         ELSE Outcome(<<"handle_system_command">>,
                      <<[op |-> "run", action |-> action]>>,
                      <<[ok |-> FALSE, error |-> "Failed to " \o action]>>)
    ELSE Outcome(<<"handle_system_command">>, <<>>,
                 <<[ok |-> FALSE,
                    error |-> "Unknown system action: " \o action]>>)

AI_HANDLERS ==
    { "open_app", "navigate_url", "mouse_click", "mouse_move", "mouse_scroll",
      "keyboard_type", "keyboard_press", "system_command" }

\* AI_HANDLERS[intent](cmd)
AIHandler(intent, cmd, bk) ==
    CASE intent = "open_app"       -> handle_open_app(cmd, bk)
      [] intent = "navigate_url"   -> handle_navigate_url(cmd, bk)
      [] intent = "mouse_click"    -> handle_mouse_click(cmd, bk)
      [] intent = "mouse_move"     -> handle_mouse_move(cmd, bk)
      [] intent = "mouse_scroll"   -> handle_mouse_scroll(cmd, bk)
      [] intent = "keyboard_type"  -> handle_keyboard_type(cmd, bk)
      [] intent = "keyboard_press" -> handle_keyboard_press(cmd, bk)
      [] intent = "system_command" -> handle_system_command(cmd, bk)

----------------------------------------------------------------------------
(* AINLPProcessor of pc_agent_relay.py.  The text the translation service  *)
(* answers with is an input; "failure" stands for a call that raises.      *)
(* A TLA+ string cannot hold the grave accent, so Backtick stands for it.  *)

Backtick == "^"
Fence == Backtick \o Backtick \o Backtick

AIReplies ==
    { "{\"intent\": \"open_app\", \"target\": \"chrome\"}",
      "[{\"intent\": \"open_app\", \"target\": \"chrome\"}, {\"intent\": \"navigate_url\", \"target\": \"google.com\"}]",
      Fence \o "json\n{\"intent\": \"system_command\", \"action\": \"lock\"}\n" \o Fence,
      "{\"intent\": \"open_app\", \"target\": \"evil.exe\"}",
      "[{\"intent\": \"mouse_click\", \"x\": 1, \"y\": 2}, {\"intent\": \"system_command\", \"action\": \"format_disk\"}]",
      "I cannot help with that.",
      "{\"intent\": \"mouse_move\", \"x\": 960, \"y\": 540}, {\"intent\": \"mouse_click\", \"button\": \"right\"}",
      "[{\"intent\": \"fly\"}, {\"intent\": \"keyboard_type\", \"text\": \"hi\"}]",
      "[{\"intent\": \"navigate_url\"}, {\"intent\": \"keyboard_type\", \"text\": \"hi\"}]",
      "[{\"intent\": \"system_command\", \"action\": \"format_disk\"}, {\"intent\": \"navigate_url\"}]",
      "\"hello\"",
      "[]",
      "[1]" }

AIOutcomes == {"failure"} \cup AIReplies

\* s has sub at position i
HasAt(s, i, sub) ==
    i + Len(sub) - 1 <= Len(s) /\ SubSeq(s, i, i + Len(sub) - 1) = sub

\* The length of the match of r'```json\n?|\n?```' at position i of s, 0 if
\* there is none; the first alternative is tried first.
FenceMatchAt(s, i) ==
    IF HasAt(s, i, Fence \o "json\n")   THEN Len(Fence) + 5
    ELSE IF HasAt(s, i, Fence \o "json") THEN Len(Fence) + 4
    ELSE IF HasAt(s, i, "\n" \o Fence)   THEN Len(Fence) + 1
    ELSE IF HasAt(s, i, Fence)           THEN Len(Fence)
    ELSE 0

RECURSIVE StripFences(_)
\* re.sub(r'```json\n?|\n?```', '', s): the leftmost match is removed, then
\* the scan goes on behind it
StripFences(s) ==
    LET at == {i \in 1..Len(s) : FenceMatchAt(s, i) > 0} IN
    IF at = {} THEN s
    ELSE LET i == CHOOSE a \in at : \A b \in at : a <= b IN
         SubSeq(s, 1, i - 1)
            \o StripFences(SubSeq(s, i + FenceMatchAt(s, i), Len(s)))

\* obj[k] = v on a dict
SetItem(obj, k, v) ==
    [f \in (DOMAIN obj) \cup {k} |-> IF f = k THEN v ELSE obj[f]]

\* cmd['ai_processed'] = True; cmd['confidence'] = 0.95
AddMetadata(cmd) == SetItem(SetItem(cmd, "ai_processed", TRUE), "confidence", 95)

\* The command returned by the `except json.JSONDecodeError` clause
CouldNotUnderstand(ai_response) ==
    [intent |-> "keyboard_type",
     text |-> "Error: Could not understand command. AI said: " \o ai_response,
     ai_processed |-> FALSE, confidence |-> 0]

\* AINLPProcessor._parse_ai_response(ai_response): the commands returned,
\* or raised # "" when an exception other than JSONDecodeError leaves it
\* (item assignment on a value that is not a dict raises TypeError).
_parse_ai_response(ai_response) ==
    LET cleaned_response == StrStrip(StripFences(ai_response))
        d == JsonLoads(cleaned_response)
    IN
    IF d.err
    THEN [raised |-> "", commands |-> <<CouldNotUnderstand(ai_response)>>]
    ELSE IF StartsWith(cleaned_response, "[")
    THEN IF d.dicts
         THEN [raised |-> "",
               commands |-> [i \in 1..Len(d.items) |-> AddMetadata(d.items[i])]]
         ELSE [raised |-> "TypeError", commands |-> <<>>]
    ELSE IF d.jtype = "dict"
    THEN [raised |-> "", commands |-> <<AddMetadata(d.obj)>>]
    ELSE [raised |-> "TypeError", commands |-> <<>>]

\* ai_response = response.choices[0].message.content.strip() and
\* self._parse_ai_response(ai_response), for each text of the service
ParsedReplies == [r \in AIReplies |-> _parse_ai_response(StrStrip(r))]

\* AINLPProcessor.process_command(text), for a processor with the given
\* `enabled` flag and the outcome ai of the call to the translation service
process_command(text, ai_enabled, ai) ==
    IF ~ai_enabled
    THEN parse_command(text)
    ELSE IF ai = "failure"
    THEN \* except Exception: fallback pattern matching
         parse_command(text)
    ELSE LET r == ParsedReplies[ai] IN
         IF r.raised # ""
         THEN parse_command(text)
         ELSE r.commands

----------------------------------------------------------------------------
(* handle_ai_command and the dispatch table of pc_agent_relay.py *)

\* all(r.get('ok', False) for r in results)
AllOk(results) ==
    \A i \in 1..Len(results) : Get(results[i], "ok", FALSE) = TRUE

RECURSIVE RunCommands(_, _, _, _)
\* The `for i, cmd in enumerate(ai_commands)` loop of handle_ai_command from
\* index i on, with acc the calls, backend calls and results so far; bks[i]
\* is the outcome of the backend for sub-command i.  An exception raised by
\* a handler leaves the loop.
RunCommands(ai_commands, bks, i, acc) ==
    IF i > Len(ai_commands)
    THEN acc
    ELSE LET cmd == ai_commands[i]
             intent == Get(cmd, "intent", "None")
         IN
         IF intent \in AI_HANDLERS
         THEN LET o == AIHandler(intent, cmd, bks[i]) IN
              IF o.raised # ""
              THEN [calls |-> acc.calls \o o.calls,
                    backend |-> acc.backend \o o.backend,
                    results |-> acc.results, raised |-> o.raised]
              ELSE RunCommands(ai_commands, bks, i + 1,
                               [calls |-> acc.calls \o o.calls,
                                backend |-> acc.backend \o o.backend,
                                results |-> acc.results \o o.resp,
                                raised |-> ""])
         ELSE RunCommands(ai_commands, bks, i + 1,
                          [acc EXCEPT !.results =
                              Append(@, [ok |-> FALSE,
                                         error |-> "Unknown intent: " \o intent])])

\* The return statements of handle_ai_command, for the translation
\* ai_commands and the run of its loop
AICommandResult(ai_commands, run) ==
    IF run.raised # ""
    THEN \* except Exception as e: return {'ok': False, 'error': str(e)}
         [calls |-> run.calls, backend |-> run.backend,
          resp |-> <<[ok |-> FALSE, error |-> run.raised]>>,
          raised |-> run.raised, cmds |-> ai_commands,
          results |-> run.results]
    ELSE [calls |-> run.calls, backend |-> run.backend,
          resp |-> <<[ok |-> AllOk(run.results),
                      results |-> run.results,
                      ai_commands |-> ai_commands,
                      command_count |-> Len(ai_commands)]>>,
          raised |-> "", cmds |-> ai_commands,
          results |-> run.results]

\* handle_ai_command from `results = []` on
ExecuteAll(ai_commands, bks) ==
    AICommandResult(ai_commands,
                    RunCommands(ai_commands, bks, 1,
                                [calls |-> <<"handle_ai_command">>,
                                 backend |-> <<>>, results |-> <<>>,
                                 raised |-> ""]))

\* handle_ai_command(payload)
handle_ai_command(payload, ai_enabled, ai, bks) ==
    IF Get(payload, "text", "") = ""
    THEN Outcome(<<"handle_ai_command">>, <<>>,
                 <<[ok |-> FALSE, error |-> "No text provided"]>>)
    ELSE ExecuteAll(process_command(Get(payload, "text", ""), ai_enabled, ai),
                    bks)

\* ENHANCED_HANDLERS[cmd_type](data)
EnhancedHandler(cmd_type, data, ai_enabled, ai, bks) ==
    CASE cmd_type \in {"click", "mouse_click"}  -> handle_mouse_click(data, bks[1])
      [] cmd_type \in {"type", "keyboard_type"} -> handle_keyboard_type(data, bks[1])
      [] cmd_type \in {"move", "mouse_move"}    -> handle_mouse_move(data, bks[1])
      [] cmd_type = "system_command" -> handle_system_command(data, bks[1])
      [] cmd_type = "ai_command"     -> handle_ai_command(data, ai_enabled, ai, bks)
      [] OTHER                       -> AIHandler(cmd_type, data, bks[1])

\* The result o of a handler as handle_relay_message passes it on: when the
\* handler raised, `except Exception as e` makes the response
\* {'ok': False, 'error': str(e)}.
ReportRaised(o) ==
    IF o.raised # ""
    THEN [o EXCEPT !.resp = <<[ok |-> FALSE, error |-> o.raised]>>]
    ELSE o

\* handle_relay_message(websocket, message), up to the send of the response
handle_relay_message(raw, ai_enabled, ai, bks) ==
    LET d == JsonLoads(raw) IN
    IF d.err
    THEN \* except Exception as e: response = {'ok': False, 'error': str(e)}
         Outcome(<<>>, <<>>, <<[ok |-> FALSE, error |-> d.msg]>>)
    ELSE IF d.jtype # "dict"
    THEN Outcome(<<>>, <<>>,
                 <<[ok |-> FALSE, error |-> AttributeErrorMsg(d.jtype)]>>)
    ELSE IF TypeOf(d.obj) = "relay_status"
    THEN Outcome(<<>>, <<>>, <<>>)
    ELSE IF TypeOf(d.obj) = "auth"
    THEN Outcome(<<>>, <<>>,
                 <<[ok |-> TRUE, auth |-> TRUE, type |-> "auth_response"]>>)
    ELSE IF TypeOf(d.obj) \in ENHANCED_HANDLERS
    THEN ReportRaised(EnhancedHandler(TypeOf(d.obj), d.obj, ai_enabled, ai,
                                      bks))
    ELSE Outcome(<<>>, <<>>,
                 <<[ok |-> FALSE,
                    error |-> "Unknown command type: " \o TypeOf(d.obj)]>>)

----------------------------------------------------------------------------
(* The session *)

\* The session state of spec section 4.5, read off the agent's position:
\* the code keeps no state field.
SessionState ==
    CASE pc \in {"loop", "except", "sleep", "stopped"} -> "Disconnected"
      [] pc = "connect"                                -> "Connecting"
      [] pc \in {"register", "auth"}                   -> "AwaitingAuth"
      [] pc = "recv"                                   -> "Ready"

\* LoopIdle for a loop that starts a task per message instead of awaiting
\* the handler.
LoopIdleTaskPerMessage == TRUE

\* `async for msg in ws` asks for the next message only when the loop body,
\* with its `await handle_command(data)` / `await handle_relay_message(...)`,
\* has run to completion.
LoopIdle == dispatching = <<>>

\* Caught without the final `except Exception` clause
CaughtWebSocketOnly(e) == e \in {"ConnectionClosed", "WebSocketException"}

\* The except clauses of connect_relay: ConnectionClosed, WebSocketException
\* and Exception; nothing derived from Exception escapes the loop.
Caught(e) == e \in {"ConnectionClosed", "WebSocketException", "Exception"}

NewEntry(f) ==
    [seq |-> f.seq, raw |-> f.raw, stage |-> "received",
     calls |-> <<>>, backend |-> <<>>, resp |-> <<>>, raised |-> "",
     cmds |-> <<>>, results |-> <<>>, ai |-> "", delivered |-> <<>>]

\* The entry of a message once its handling produced o.  An agent that
\* sends responses has the response left to send when there is one.
EntryHandled(entry, o, sends) ==
    [entry EXCEPT !.stage = IF sends /\ o.resp # <<>> THEN "respond"
                                                      ELSE "done",
                  !.calls = o.calls,
                  !.backend = o.backend,
                  !.resp = o.resp,
                  !.raised = o.raised,
                  !.cmds = o.cmds,
                  !.results = o.results]

\* No translator is being called on its own.
NoTranslation ==
    [fn |-> "", text |-> "", ai |-> "", stage |-> "idle", commands |-> <<>>]

\* The fields of one connection, as they are when none is open.
NoConnection ==
    /\ transport' = "none"
    /\ openConns' = 0
    /\ inbox' = <<>>
    /\ dispatching' = <<>>
    /\ readCount' = 0
    /\ doneCount' = 0
    /\ sentReg' = 0
    /\ sentOther' = FALSE

Init ==
    /\ variant \in {"relay", "ai"}
    /\ pc = "loop"
    /\ exc = "none"
    /\ reconnect_delay = IF variant = "relay" THEN floor_delay * Unit
                                              ELSE ai_reconnect_delay * Unit
    /\ transport = "none"
    /\ openConns = 0
    /\ inbox = <<>>
    /\ readCount = 0
    /\ doneCount = 0
    /\ dispatching = <<>>
    /\ sentReg = 0
    /\ sentOther = FALSE
    /\ fails = 0
    /\ attempt = "none"
    /\ prevReady = FALSE
    /\ lastWait = 0
    /\ enabled = (variant = "ai")   \* OPENAI_API_KEY has a non-empty default
    /\ translation = NoTranslation

----------------------------------------------------------------------------
(* connect_relay of pc_agent.py *)

\* `while True:` - the next connection attempt starts.
relay_loop ==
    /\ variant = "relay"
    /\ pc = "loop"
    /\ pc' = "connect"
    /\ attempt' = IF attempt = "none" THEN "first" ELSE "retry"
    /\ UNCHANGED <<translation, enabled, variant, exc, reconnect_delay, transport, openConns, inbox,
                   readCount, doneCount, dispatching, sentReg, sentOther,
                   fails, prevReady, lastWait>>

\* relay_connect_ok entering the receive loop without registering
relay_connect_ok_unregistered ==
    /\ variant = "relay"
    /\ pc = "connect"
    /\ pc' = "recv"
    /\ transport' = "open"
    /\ openConns' = openConns + 1
    /\ prevReady' = FALSE
    /\ UNCHANGED <<translation, enabled, variant, exc, reconnect_delay, inbox, readCount, doneCount,
                   dispatching, sentReg, sentOther, fails, attempt, lastWait>>

\* `async with websockets.connect(...) as ws:` succeeds.
relay_connect_ok ==
    /\ variant = "relay"
    /\ pc = "connect"
    /\ pc' = "register"
    /\ transport' = "open"
    /\ openConns' = openConns + 1
    /\ prevReady' = FALSE
    /\ UNCHANGED <<translation, enabled, variant, exc, reconnect_delay, inbox, readCount, doneCount,
                   dispatching, sentReg, sentOther, fails, attempt, lastWait>>

\* websockets.connect(...) raises (refused, timeout, bad handshake).
relay_connect_fail ==
    /\ variant = "relay"
    /\ pc = "connect"
    /\ \E e \in {"WebSocketException", "Exception"} : exc' = e
    /\ pc' = "except"
    /\ prevReady' = FALSE
    /\ lastWait' = 0
    /\ UNCHANGED <<translation, enabled, variant, reconnect_delay, transport, openConns, inbox,
                   readCount, doneCount, dispatching, sentReg, sentOther,
                   fails, attempt>>

\* `await ws.send(json.dumps(register_msg))`, then the reset of
\* reconnect_delay; on a transport that has already closed the send raises
\* ConnectionClosed, which leaves the `async with` (closing ws).
relay_register ==
    /\ variant = "relay"
    /\ pc = "register"
    /\ IF transport = "open"
       THEN /\ sentReg' = sentReg + 1
            /\ reconnect_delay' = floor_delay * Unit
            /\ fails' = 0
            /\ prevReady' = TRUE
            /\ pc' = "recv"
            /\ UNCHANGED <<exc, transport, openConns, inbox, dispatching,
                           readCount, doneCount, sentOther, lastWait>>
       ELSE /\ exc' = "ConnectionClosed"
            /\ pc' = "except"
            /\ lastWait' = 0
            /\ NoConnection
            /\ UNCHANGED <<reconnect_delay, fails, prevReady>>
    /\ UNCHANGED <<translation, enabled, variant, attempt>>

\* `async for msg in ws:` yields the next message, oldest first.
relay_recv ==
    /\ variant = "relay"
    /\ pc = "recv"
    /\ LoopIdle
    /\ inbox # <<>>
    /\ dispatching' = Append(dispatching, NewEntry(Head(inbox)))
    /\ inbox' = Tail(inbox)
    /\ readCount' = readCount + 1
    /\ UNCHANGED <<translation, enabled, variant, pc, exc, reconnect_delay, transport, openConns,
                   doneCount, sentReg, sentOther, fails, attempt, prevReady,
                   lastWait>>

\* The loop body (lines 158-176) for the message that was read.
relay_handle ==
    /\ variant = "relay"
    /\ pc = "recv"
    /\ \E i \in 1..Len(dispatching), bk \in BackendOutcomes :
          /\ dispatching[i].stage = "received"
          /\ dispatching' =
                [dispatching EXCEPT
                   ![i] = EntryHandled(dispatching[i],
                                       RelayLoopBody(dispatching[i].raw, bk),
                                       FALSE)]
    /\ UNCHANGED <<translation, enabled, variant, pc, exc, reconnect_delay, transport, openConns,
                   inbox, readCount, doneCount, sentReg, sentOther, fails,
                   attempt, prevReady, lastWait>>

\* The loop body has finished; control is back at `async for`.
relay_next ==
    /\ variant = "relay"
    /\ pc = "recv"
    /\ \E i \in 1..Len(dispatching) :
          /\ dispatching[i].stage = "done"
          /\ dispatching' = [j \in 1..(Len(dispatching) - 1) |->
                               IF j < i THEN dispatching[j]
                                        ELSE dispatching[j + 1]]
    /\ doneCount' = doneCount + 1
    /\ UNCHANGED <<translation, enabled, variant, pc, exc, reconnect_delay, transport, openConns,
                   inbox, readCount, sentReg, sentOther, fails, attempt,
                   prevReady, lastWait>>

\* The connection was closed with code 1000/1001: the iterator ends, the
\* `async with` block is left and control is back at `while True`.
relay_closed_ok ==
    /\ variant = "relay"
    /\ pc = "recv"
    /\ LoopIdle
    /\ transport = "closedOK"
    /\ pc' = "loop"
    /\ lastWait' = 0
    /\ NoConnection
    /\ UNCHANGED <<translation, enabled, variant, exc, reconnect_delay, fails, attempt, prevReady>>

\* The connection was lost or closed with an error code: the iterator
\* raises ConnectionClosedError, which leaves the `async with`.
relay_closed_err ==
    /\ variant = "relay"
    /\ pc = "recv"
    /\ LoopIdle
    /\ transport = "closedErr"
    /\ exc' = "ConnectionClosed"
    /\ pc' = "except"
    /\ lastWait' = 0
    /\ NoConnection
    /\ UNCHANGED <<translation, enabled, variant, reconnect_delay, fails, attempt, prevReady>>

\* One of the three except clauses: sleep reconnect_delay, then
\* reconnect_delay = min(reconnect_delay * 1.5, max_reconnect_delay).
relay_except ==
    /\ variant = "relay"
    /\ pc = "except"
    /\ Caught(exc)
    /\ lastWait' = reconnect_delay
    /\ reconnect_delay' = NextDelay(reconnect_delay)
    /\ fails' = Min(fails + 1, FailCap)
    /\ exc' = "none"
    /\ pc' = "loop"
    /\ UNCHANGED <<translation, enabled, variant, transport, openConns, inbox, readCount, doneCount,
                   dispatching, sentReg, sentOther, attempt, prevReady>>

----------------------------------------------------------------------------
(* main, connect_to_relay and handle_relay_message of pc_agent_relay.py *)

\* main: `while True:` calls connect_to_relay().
ai_loop ==
    /\ variant = "ai"
    /\ pc = "loop"
    /\ pc' = "connect"
    /\ attempt' = IF attempt = "none" THEN "first" ELSE "retry"
    /\ UNCHANGED <<translation, enabled, variant, exc, reconnect_delay, transport, openConns, inbox,
                   readCount, doneCount, dispatching, sentReg, sentOther,
                   fails, prevReady, lastWait>>

\* ai_connect_ok entering the receive loop without sending the auth frame
ai_connect_ok_unauthenticated ==
    /\ variant = "ai"
    /\ pc = "connect"
    /\ pc' = "recv"
    /\ transport' = "open"
    /\ openConns' = openConns + 1
    /\ prevReady' = FALSE
    /\ UNCHANGED <<translation, enabled, variant, exc, reconnect_delay, inbox, readCount, doneCount,
                   dispatching, sentReg, sentOther, fails, attempt, lastWait>>

\* `websocket = await websockets.connect(...)` succeeds.
ai_connect_ok ==
    /\ variant = "ai"
    /\ pc = "connect"
    /\ pc' = "auth"
    /\ transport' = "open"
    /\ openConns' = openConns + 1
    /\ prevReady' = FALSE
    /\ UNCHANGED <<translation, enabled, variant, exc, reconnect_delay, inbox, readCount, doneCount,
                   dispatching, sentReg, sentOther, fails, attempt, lastWait>>

\* websockets.connect(...) raises inside the try block.
ai_connect_fail ==
    /\ variant = "ai"
    /\ pc = "connect"
    /\ \E e \in {"WebSocketException", "Exception"} : exc' = e
    /\ pc' = "except"
    /\ prevReady' = FALSE
    /\ lastWait' = 0
    /\ UNCHANGED <<translation, enabled, variant, reconnect_delay, transport, openConns, inbox,
                   readCount, doneCount, dispatching, sentReg, sentOther,
                   fails, attempt>>

\* `await websocket.send(json.dumps({'type': 'auth', 'token': TOKEN}))`.
ai_auth ==
    /\ variant = "ai"
    /\ pc = "auth"
    /\ IF transport = "open"
       THEN /\ sentReg' = sentReg + 1
            /\ fails' = 0
            /\ prevReady' = TRUE
            /\ pc' = "recv"
            /\ UNCHANGED <<exc, lastWait>>
       ELSE /\ exc' = "ConnectionClosed"
            /\ pc' = "except"
            /\ lastWait' = 0
            /\ UNCHANGED <<sentReg, fails, prevReady>>
    /\ UNCHANGED <<translation, enabled, variant, reconnect_delay, transport, openConns, inbox,
                   readCount, doneCount, dispatching, sentOther, attempt>>

\* `async for message in websocket:` yields the next message.
ai_recv ==
    /\ variant = "ai"
    /\ pc = "recv"
    /\ LoopIdle
    /\ inbox # <<>>
    /\ dispatching' = Append(dispatching, NewEntry(Head(inbox)))
    /\ inbox' = Tail(inbox)
    /\ readCount' = readCount + 1
    /\ UNCHANGED <<translation, enabled, variant, pc, exc, reconnect_delay, transport, openConns,
                   doneCount, sentReg, sentOther, fails, attempt, prevReady,
                   lastWait>>

\* The frame is an ai_command with text: the only frames whose handling
\* calls the translation service and can run more than one handler.
CallsTranslator(raw) ==
    LET d == JsonLoads(raw) IN
    /\ ~d.err
    /\ d.jtype = "dict"
    /\ TypeOf(d.obj) = "ai_command"
    /\ Get(d.obj, "text", "") # ""

\* The answers of the translation service that the handling of raw can see
AIChoices(raw) ==
    IF CallsTranslator(raw) /\ enabled THEN AIOutcomes ELSE {"failure"}

\* The backend outcomes that the handling of raw can see: one per handler run
BackendChoices(raw) ==
    IF CallsTranslator(raw)
    THEN [1..MaxSub -> BackendOutcomes]
    ELSE {[k \in 1..MaxSub |-> bk] : bk \in BackendOutcomes}

\* handle_relay_message up to the point where the response is to be sent;
\* a message that gets no response (relay_status) is finished here.  The
\* translation service answers ai, and the backend answers bks[k] to the
\* k-th handler that is run.
ai_handle ==
    /\ variant = "ai"
    /\ pc = "recv"
    /\ \E i \in 1..Len(dispatching) :
       \E ai \in AIChoices(dispatching[i].raw),
          bks \in BackendChoices(dispatching[i].raw) :
          /\ dispatching[i].stage = "received"
          /\ dispatching' =
                [dispatching EXCEPT
                   ![i] = EntryHandled(
                             [dispatching[i] EXCEPT
                                !.ai = IF CallsTranslator(dispatching[i].raw)
                                          /\ enabled
                                       THEN ai ELSE ""],
                             handle_relay_message(dispatching[i].raw, enabled,
                                                  ai, bks),
                             TRUE)]
    /\ UNCHANGED <<translation, enabled, variant, pc, exc, reconnect_delay, transport, openConns,
                   inbox, readCount, doneCount, sentReg, sentOther, fails,
                   attempt, prevReady, lastWait>>

\* `await websocket.send(json.dumps(...))` of the response.  On a closed
\* transport the send raises; the except clause of handle_relay_message
\* tries to send an error envelope, which raises again and is swallowed by
\* the bare except: nothing is delivered and the loop goes on.
ai_respond ==
    /\ variant = "ai"
    /\ pc = "recv"
    /\ \E i \in 1..Len(dispatching) :
          /\ dispatching[i].stage = "respond"
          /\ IF transport = "open"
             THEN /\ dispatching' = [dispatching EXCEPT
                                       ![i].stage = "done",
                                       ![i].delivered = dispatching[i].resp]
                  /\ sentOther' = TRUE
             ELSE /\ dispatching' = [dispatching EXCEPT ![i].stage = "done"]
                  /\ UNCHANGED sentOther
    /\ UNCHANGED <<translation, enabled, variant, pc, exc, reconnect_delay, transport, openConns,
                   inbox, readCount, doneCount, sentReg, fails, attempt,
                   prevReady, lastWait>>

\* handle_relay_message has returned; control is back at `async for`.
ai_next ==
    /\ variant = "ai"
    /\ pc = "recv"
    /\ \E i \in 1..Len(dispatching) :
          /\ dispatching[i].stage = "done"
          /\ dispatching' = [j \in 1..(Len(dispatching) - 1) |->
                               IF j < i THEN dispatching[j]
                                        ELSE dispatching[j + 1]]
    /\ doneCount' = doneCount + 1
    /\ UNCHANGED <<translation, enabled, variant, pc, exc, reconnect_delay, transport, openConns,
                   inbox, readCount, sentReg, sentOther, fails, attempt,
                   prevReady, lastWait>>

\* Closed with code 1000/1001: the iterator ends; `finally` closes the
\* websocket and connect_to_relay returns to main.
ai_closed_ok ==
    /\ variant = "ai"
    /\ pc = "recv"
    /\ LoopIdle
    /\ transport = "closedOK"
    /\ pc' = "sleep"
    /\ lastWait' = 0
    /\ NoConnection
    /\ UNCHANGED <<translation, enabled, variant, exc, reconnect_delay, fails, attempt, prevReady>>

\* Lost or closed with an error code: the iterator raises
\* ConnectionClosedError inside the try block.
ai_closed_err ==
    /\ variant = "ai"
    /\ pc = "recv"
    /\ LoopIdle
    /\ transport = "closedErr"
    /\ exc' = "ConnectionClosed"
    /\ pc' = "except"
    /\ lastWait' = 0
    /\ UNCHANGED <<translation, enabled, variant, reconnect_delay, transport, openConns, inbox,
                   readCount, doneCount, dispatching, sentReg, sentOther,
                   fails, attempt, prevReady>>

\* ai_except without the `finally` clause: the websocket is left as it is
ai_except_without_close ==
    /\ variant = "ai"
    /\ pc = "except"
    /\ Caught(exc)
    /\ exc' = "none"
    /\ pc' = "sleep"
    /\ UNCHANGED <<translation, enabled, variant, reconnect_delay, transport, openConns, inbox,
                   readCount, doneCount, dispatching, sentReg, sentOther,
                   fails, attempt, prevReady, lastWait>>

\* The except clauses of connect_to_relay (ConnectionClosed, Exception) log;
\* `finally` closes the websocket if one was opened; connect_to_relay returns.
ai_except ==
    /\ variant = "ai"
    /\ pc = "except"
    /\ Caught(exc)
    /\ exc' = "none"
    /\ pc' = "sleep"
    /\ NoConnection
    /\ UNCHANGED <<translation, enabled, variant, reconnect_delay, fails, attempt, prevReady,
                   lastWait>>

\* main: `await asyncio.sleep(reconnect_delay)`; reconnect_delay is never
\* assigned again.
ai_sleep ==
    /\ variant = "ai"
    /\ pc = "sleep"
    /\ lastWait' = reconnect_delay
    /\ fails' = Min(fails + 1, FailCap)
    /\ pc' = "loop"
    /\ UNCHANGED <<translation, enabled, variant, exc, reconnect_delay, transport, openConns, inbox,
                   readCount, doneCount, dispatching, sentReg, sentOther,
                   attempt, prevReady>>

----------------------------------------------------------------------------
(* The environment: the relay and the operator *)

\* The relay sends a frame; the library buffers it.
Deliver ==
    /\ transport = "open"
    /\ Len(inbox) < MaxQueue
    /\ readCount + Len(inbox) < MaxFrames
    /\ \E raw \in RawFrames :
          inbox' = Append(inbox, [seq |-> readCount + Len(inbox) + 1,
                                  raw |-> raw])
    /\ UNCHANGED <<translation, enabled, variant, pc, exc, reconnect_delay, transport, openConns,
                   readCount, doneCount, dispatching, sentReg, sentOther,
                   fails, attempt, prevReady, lastWait>>

\* The relay closes the connection (cleanly) or the transport is lost.
RemoteClose ==
    /\ transport = "open"
    /\ \E t \in {"closedOK", "closedErr"} : transport' = t
    /\ UNCHANGED <<translation, enabled, variant, pc, exc, reconnect_delay, openConns, inbox,
                   readCount, doneCount, dispatching, sentReg, sentOther,
                   fails, attempt, prevReady, lastWait>>

\* Ctrl+C: KeyboardInterrupt ends asyncio.run and the process.
Interrupt ==
    /\ pc # "stopped"
    /\ pc' = "stopped"
    /\ exc' = "none"
    /\ reconnect_delay' = floor_delay * Unit
    /\ fails' = 0
    /\ attempt' = "none"
    /\ prevReady' = FALSE
    /\ lastWait' = 0
    /\ NoConnection
    /\ UNCHANGED <<translation, enabled, variant>>

AgentStep ==
    \/ relay_loop \/ relay_connect_ok \/ relay_connect_fail \/ relay_register
    \/ relay_recv \/ relay_handle \/ relay_next
    \/ relay_closed_ok \/ relay_closed_err \/ relay_except
    \/ ai_loop \/ ai_connect_ok \/ ai_connect_fail \/ ai_auth
    \/ ai_recv \/ ai_handle \/ ai_respond \/ ai_next
    \/ ai_closed_ok \/ ai_closed_err \/ ai_except \/ ai_sleep

Next == AgentStep \/ Deliver \/ RemoteClose \/ Interrupt

Spec == Init /\ [][Next]_vars

\* The event loop keeps running the agent coroutine.
FairSpec == Spec /\ WF_vars(AgentStep)

----------------------------------------------------------------------------
(* The handling of command frames by the AI agent, on a session that is    *)
(* Ready: the phone sends one command and waits for its response.          *)

\* The AI agent right after the `auth` frame was sent on its first
\* connection, with either setting of the API key.
CommandInit ==
    /\ variant = "ai"
    /\ enabled \in BOOLEAN
    /\ pc = "recv"
    /\ exc = "none"
    /\ reconnect_delay = ai_reconnect_delay * Unit
    /\ transport = "open"
    /\ openConns = 1
    /\ inbox = <<>>
    /\ readCount = 0
    /\ doneCount = 0
    /\ dispatching = <<>>
    /\ sentReg = 1
    /\ sentOther = FALSE
    /\ fails = 0
    /\ attempt = "first"
    /\ prevReady = TRUE
    /\ lastWait = 0
    /\ translation = NoTranslation

\* The relay forwards the next command of the phone.
Command ==
    /\ transport = "open"
    /\ pc = "recv"
    /\ inbox = <<>>
    /\ dispatching = <<>>
    /\ readCount < MaxFrames
    /\ \E raw \in CommandFrames :
          inbox' = <<[seq |-> readCount + 1, raw |-> raw]>>
    /\ UNCHANGED <<translation, enabled, variant, pc, exc, reconnect_delay, transport, openConns,
                   readCount, doneCount, dispatching, sentReg, sentOther,
                   fails, attempt, prevReady, lastWait>>

CommandNext == Command \/ ai_recv \/ ai_handle \/ ai_respond \/ ai_next

CommandSpec == CommandInit /\ [][CommandNext]_vars

----------------------------------------------------------------------------
(* The two translators on their own: PatternMatcher.parse_command and      *)
(* AINLPProcessor.process_command are called on a text, and return.        *)

\* The session fields of CommandInit; what varies is the call.
TranslateInit ==
    /\ variant = "ai"
    /\ enabled \in BOOLEAN
    /\ pc = "recv"
    /\ exc = "none"
    /\ reconnect_delay = ai_reconnect_delay * Unit
    /\ transport = "open"
    /\ openConns = 1
    /\ inbox = <<>>
    /\ readCount = 0
    /\ doneCount = 0
    /\ dispatching = <<>>
    /\ sentReg = 1
    /\ sentOther = FALSE
    /\ fails = 0
    /\ attempt = "first"
    /\ prevReady = TRUE
    /\ lastWait = 0
    /\ translation \in
          {[fn |-> fn, text |-> text, ai |-> "", stage |-> "called",
            commands |-> <<>>] :
              fn \in {"parse_command", "process_command"},
              text \in Utterances}

\* PatternMatcher.parse_command(text) returns.
parse_command_returns ==
    /\ translation.stage = "called"
    /\ translation.fn = "parse_command"
    /\ translation' = [translation EXCEPT
                          !.stage = "returned",
                          !.commands = parse_command(translation.text)]
    /\ UNCHANGED <<enabled, variant, pc, exc, reconnect_delay, transport,
                   openConns, inbox, readCount, doneCount, dispatching,
                   sentReg, sentOther, fails, attempt, prevReady, lastWait>>

\* AINLPProcessor.process_command(text) returns; when the processor is
\* enabled the translation service has answered ai.
process_command_returns ==
    /\ translation.stage = "called"
    /\ translation.fn = "process_command"
    /\ \E ai \in IF enabled THEN AIOutcomes ELSE {""} :
          translation' = [translation EXCEPT
                             !.stage = "returned",
                             !.ai = ai,
                             !.commands = process_command(translation.text,
                                                          enabled, ai)]
    /\ UNCHANGED <<enabled, variant, pc, exc, reconnect_delay, transport,
                   openConns, inbox, readCount, doneCount, dispatching,
                   sentReg, sentOther, fails, attempt, prevReady, lastWait>>

TranslateNext == parse_command_returns \/ process_command_returns

TranslateSpec == TranslateInit /\ [][TranslateNext]_vars

----------------------------------------------------------------------------
(* The dispatch of pointer and text commands by either agent, on a session *)
(* that is Ready.                                                          *)

\* Either agent right after its registration / auth frame was sent on its
\* first connection.
DispatchInit ==
    /\ variant \in {"relay", "ai"}
    /\ enabled = (variant = "ai")
    /\ pc = "recv"
    /\ exc = "none"
    /\ reconnect_delay = IF variant = "relay" THEN floor_delay * Unit
                                              ELSE ai_reconnect_delay * Unit
    /\ transport = "open"
    /\ openConns = 1
    /\ inbox = <<>>
    /\ readCount = 0
    /\ doneCount = 0
    /\ dispatching = <<>>
    /\ sentReg = 1
    /\ sentOther = FALSE
    /\ fails = 0
    /\ attempt = "first"
    /\ prevReady = TRUE
    /\ lastWait = 0
    /\ translation = NoTranslation

\* The relay forwards the next pointer or text command of the phone.
PhoneCommand ==
    /\ transport = "open"
    /\ pc = "recv"
    /\ inbox = <<>>
    /\ dispatching = <<>>
    /\ readCount < MaxFrames
    /\ \E raw \in DispatchFrames :
          inbox' = <<[seq |-> readCount + 1, raw |-> raw]>>
    /\ UNCHANGED <<translation, enabled, variant, pc, exc, reconnect_delay, transport, openConns,
                   readCount, doneCount, dispatching, sentReg, sentOther,
                   fails, attempt, prevReady, lastWait>>

DispatchNext ==
    \/ PhoneCommand
    \/ relay_recv \/ relay_handle \/ relay_next
    \/ ai_recv \/ ai_handle \/ ai_respond \/ ai_next

DispatchSpec == DispatchInit /\ [][DispatchNext]_vars

TypeOK ==
    /\ variant \in {"relay", "ai"}
    /\ pc \in {"loop", "connect", "register", "auth", "recv", "except",
               "sleep", "stopped"}
    /\ exc \in {"none", "ConnectionClosed", "WebSocketException", "Exception"}
    /\ reconnect_delay \in Nat
    /\ transport \in {"none", "open", "closedOK", "closedErr"}
    /\ openConns \in Nat
    /\ Len(inbox) <= MaxQueue
    /\ readCount \in 0..MaxFrames
    /\ doneCount \in 0..MaxFrames
    /\ sentReg \in Nat
    /\ sentOther \in BOOLEAN
    /\ fails \in 0..FailCap
    /\ attempt \in {"none", "first", "retry"}
    /\ prevReady \in BOOLEAN
    /\ lastWait \in Nat
    /\ enabled \in BOOLEAN
    /\ translation.stage \in {"idle", "called", "returned"}

----------------------------------------------------------------------------
(* Properties *)

Entries == {dispatching[i] : i \in 1..Len(dispatching)}

\* C1: in both receive loops the frames of one connection are handled one
\* at a time and in arrival order: at most one frame is in dispatch, it is
\* the frame that arrived right after the last completed one, and the
\* frames still buffered are the ones that arrived after it, in order.
C1_OneFrameAtATime ==
    /\ Len(dispatching) <= 1
    /\ \A i \in 1..Len(dispatching) : dispatching[i].seq = doneCount + 1
    /\ \A j \in 1..Len(inbox) : inbox[j].seq = readCount + j

\* Frame 1 is in dispatch while frame 2 has already arrived and waits.
C1_Witness ==
    /\ Len(dispatching) = 1
    /\ dispatching[1].seq = 1
    /\ inbox # <<>>
    /\ Head(inbox).seq = 2

C3_RegistrationFirst ==
    /\ sentReg <= 1
    /\ (SessionState = "Ready" => sentReg = 1)
    /\ (SessionState = "AwaitingAuth" =>
           sentReg = 0 /\ readCount = 0 /\ dispatching = <<>> /\ ~sentOther)
    /\ ((readCount > 0 \/ dispatching # <<>> \/ sentOther) => sentReg = 1)

\* After the registration a frame was read and a response was sent.
C3_Witness ==
    /\ sentReg = 1
    /\ readCount > 0
    /\ sentOther

\* The k-th term of 5, 7.5, 11.25, ... capped at 60, in 1/Unit seconds.
ExpectedDelay(k) ==
    IF floor_delay * 3 ^ k >= max_reconnect_delay * 2 ^ k
    THEN max_reconnect_delay * Unit
    ELSE (floor_delay * Unit * 3 ^ k) \div (2 ^ k)

\* C4: in connect_relay the delay after k consecutive failures since the last
\* registration is min(5 * 1.5^k, 60); it is 5 at the start and whenever the
\* session is Ready, and always within [5, 60].
C4_RelayBackoff ==
    variant = "relay" =>
       /\ reconnect_delay = ExpectedDelay(fails)
       /\ reconnect_delay >= floor_delay * Unit
       /\ reconnect_delay <= max_reconnect_delay * Unit
       /\ (SessionState = "Ready" => reconnect_delay = floor_delay * Unit)
       /\ (pc = "loop" /\ lastWait > 0 /\ fails < FailCap =>
              lastWait = ExpectedDelay(fails - 1))

\* The relay agent is about to wait the ceiling after seven failures.
C4_Witness ==
    /\ variant = "relay"
    /\ pc = "except"
    /\ fails = 7
    /\ reconnect_delay = max_reconnect_delay * Unit

\* C5: the reconnect delay of the AI agent's main loop follows the same
\* backoff: after k consecutive failures it is min(5 * 1.5^k, 60).
C5_AIBackoff ==
    variant = "ai" => reconnect_delay = ExpectedDelay(fails)

\* C6: every connection attempt but the first is preceded by a wait since
\* the session became Disconnected, and that wait is the floor delay when
\* the previous connection had been registered.
C6_WaitBeforeRetry ==
    (pc = "connect" /\ attempt = "retry") =>
       /\ lastWait > 0
       /\ (prevReady => lastWait = floor_delay * Unit)

\* C7: while the process is not interrupted, a Disconnected session is
\* always followed by another connection attempt.
C7_AlwaysRetries ==
    (SessionState = "Disconnected" /\ pc # "stopped")
       ~> (pc = "connect" \/ pc = "stopped")

\* A new attempt is under way after a failure.
C7_Witness ==
    /\ pc = "connect"
    /\ attempt = "retry"
    /\ fails > 0

\* A relay error frame: an object with ok false and an error.
IsErrorFrame(raw) ==
    LET d == JsonLoads(raw) IN
    /\ ~d.err
    /\ d.jtype = "dict"
    /\ Has(d.obj, "ok") /\ d.obj.ok = FALSE
    /\ Has(d.obj, "error")

\* C8: when the handling of a relay error frame ends, the session leaves
\* Ready for Disconnected.
C8_ErrorFrameDisconnects ==
    [][ ( /\ \E e \in Entries : e.stage = "done" /\ IsErrorFrame(e.raw)
          /\ dispatching' # dispatching )
        => SessionState' = "Disconnected" ]_vars

\* C9: a frame that is not valid JSON gets the response
\* {ok: false, error: "Invalid JSON"} and no handler is invoked.
C9_InvalidJSON ==
    \A e \in Entries :
       (e.stage = "done" /\ JsonLoads(e.raw).err) =>
          /\ e.calls = <<>>
          /\ e.resp = <<[ok |-> FALSE, error |-> "Invalid JSON"]>>

\* C10: a frame that is valid JSON but not an object gets the response
\* {ok: false, error: "Payload must be a JSON object"} and no handler is
\* invoked.
C10_NonObject ==
    \A e \in Entries :
       (e.stage = "done" /\ ~JsonLoads(e.raw).err
           /\ JsonLoads(e.raw).jtype # "dict") =>
          /\ e.calls = <<>>
          /\ e.resp = <<[ok |-> FALSE,
                         error |-> "Payload must be a JSON object"]>>

----------------------------------------------------------------------------
(* Dispatch of one frame *)

\* The frame decodes to a JSON object.
IsObject(raw) == ~JsonLoads(raw).err /\ JsonLoads(raw).jtype = "dict"

\* data.get('type') of an object frame
FrameType(raw) == TypeOf(JsonLoads(raw).obj)

\* The reserved, non-command frame types of spec section 6
Reserved ==
    {"auth", "relay_status", "partner_connected", "partner_disconnected"}

\* The command types the running agent has a handler for
Registered ==
    IF variant = "relay"
    THEN {"click", "move", "type", "scroll", "key", "hotkey"}
    ELSE ENHANCED_HANDLERS

UnknownTypeEnvelope(t) ==
    [ok |-> FALSE, error |-> "Unknown command type: " \o t]

\* C11: an object frame (not itself a response envelope with an ok field)
\* whose type is neither reserved nor registered, a missing type included,
\* runs no handler, is answered
\* {ok: false, error: "Unknown command type: <type>"} and leaves the
\* session Ready.
C11_UnknownType ==
    \A e \in Entries :
       (e.stage = "done" /\ IsObject(e.raw)
           /\ ~Has(JsonLoads(e.raw).obj, "ok")
           /\ FrameType(e.raw) \notin (Reserved \cup Registered)) =>
          /\ e.backend = <<>>
          /\ e.raised = ""
          /\ e.resp = <<UnknownTypeEnvelope(FrameType(e.raw))>>
          /\ SessionState = "Ready"

\* C12: when a handler raised, the exception is turned into the response
\* {ok: false, error: <message>} and the session is still Ready.
C12_HandlerFailureReported ==
    \A e \in Entries :
       (e.stage = "done" /\ e.raised # "") =>
          /\ e.resp = <<[ok |-> FALSE, error |-> e.raised]>>
          /\ SessionState = "Ready"

\* C13: a command frame (an object frame with a type that is not reserved)
\* handled while Ready gets exactly one response envelope.
C13_OneResponsePerCommand ==
    \A e \in Entries :
       (e.stage = "done" /\ IsObject(e.raw)
           /\ Has(JsonLoads(e.raw).obj, "type")
           /\ FrameType(e.raw) \notin Reserved) =>
          Len(e.resp) = 1

\* C14: a frame of a reserved type never reaches the command dispatch
\* function or a handler and gets no unknown-command response.
C14_ReservedIntercepted ==
    \A e \in Entries :
       (e.stage = "done" /\ IsObject(e.raw) /\ FrameType(e.raw) \in Reserved) =>
          /\ e.calls = <<>>
          /\ e.backend = <<>>
          /\ \A k \in 1..Len(e.resp) :
                ~(Has(e.resp[k], "error")
                    /\ e.resp[k].error
                         = "Unknown command type: " \o FrameType(e.raw))

----------------------------------------------------------------------------
(* ai_command: translation and dispatch of the sub-commands *)

\* The handling of an ai_command frame with non-empty text has finished.
AICommandDone(e) == e.stage = "done" /\ CallsTranslator(e.raw)

\* cmd.get('intent'), None printed as "None"
IntentOf(cmd) == Get(cmd, "intent", "None")

HasHandler(cmd) == IntentOf(cmd) \in AI_HANDLERS

\* r is an envelope that dispatching cmd can return
IsEnvelopeOf(r, cmd) ==
    IF HasHandler(cmd)
    THEN \E bk \in BackendOutcomes :
            LET o == AIHandler(IntentOf(cmd), cmd, bk) IN
            o.raised = "" /\ r = o.resp[1]
    ELSE r = [ok |-> FALSE, error |-> "Unknown intent: " \o IntentOf(cmd)]

\* C15: the sub-commands of an ai_command are dispatched one after the
\* other in translation order (the handlers called are those of the
\* translated commands, in that order), results[i] is the envelope of the
\* i-th translated command, and the aggregate ok is true exactly when every
\* sub-result has ok true, whatever the translation is.
C15_SequentialDispatch ==
    \A e \in Entries :
       AICommandDone(e) =>
          /\ Len(e.resp) = 1
          /\ Has(e.resp[1], "results")
          /\ Len(e.resp[1].results) = Len(e.cmds)
          /\ \A i \in 1..Len(e.cmds) :
                IsEnvelopeOf(e.resp[1].results[i], e.cmds[i])
          /\ LET known == SelectSeq(e.cmds, HasHandler) IN
             e.calls = <<"handle_ai_command">>
                          \o [k \in 1..Len(known) |->
                                 "handle_" \o IntentOf(known[k])]
          /\ e.resp[1].ok
                = (\A i \in 1..Len(e.resp[1].results) :
                      Get(e.resp[1].results[i], "ok", FALSE) = TRUE)

\* C16: every translated sub-command is attempted exactly once whatever
\* happened to the ones before it (ok false, unknown intent, a handler that
\* raises), and the response echoes the whole list: the numbers of results,
\* of ai_commands and command_count are the number of translated commands.
C16_EverySubCommandAttempted ==
    \A e \in Entries :
       AICommandDone(e) =>
          /\ Len(e.calls) = 1 + Len(SelectSeq(e.cmds, HasHandler))
          /\ Len(e.resp) = 1
          /\ Has(e.resp[1], "results")
          /\ Has(e.resp[1], "ai_commands")
          /\ Has(e.resp[1], "command_count")
          /\ e.resp[1].ai_commands = e.cmds
          /\ e.resp[1].command_count = Len(e.cmds)
          /\ Len(e.resp[1].results) = Len(e.cmds)

\* text.lower().strip(), the text the rules of parse_command look at
Normalized(text) == StrStrip(StrLower(text))

\* No rule of the Pattern Translator applies to text: it names no
\* application and no website, and it does not hold both a coordinate pair
\* and one of the words click, move.
NoRuleMatches(text) ==
    LET t == Normalized(text) IN
    /\ \A i \in 1..Len(approved_apps) : ~Contains(approved_apps[i][1], t)
    /\ \A i \in 1..Len(websites) : ~Contains(websites[i][1], t)
    /\ ~(CoordSearch(t).found /\ (Contains("click", t) \/ Contains("move", t)))

\* C17: PatternMatcher.parse_command returns a non-empty sequence for every
\* text (empty, blank and punctuation-only texts included), and when no rule
\* matches the result is the single default keyboard_type command.
C17_TotalCoverage ==
    (translation.stage = "returned" /\ translation.fn = "parse_command") =>
       /\ Len(translation.commands) >= 1
       /\ NoRuleMatches(translation.text) =>
             /\ Len(translation.commands) = 1
             /\ translation.commands[1].intent = "keyboard_type"
             /\ translation.commands[1].text = Normalized(translation.text)

\* parse_command has returned the default command for the empty text.
C17_Witness ==
    /\ translation.stage = "returned"
    /\ translation.fn = "parse_command"
    /\ translation.text = ""
    /\ Len(translation.commands) = 1
    /\ translation.commands[1].intent = "keyboard_type"

\* cmd respects the two whitelists
Whitelisted(cmd) ==
    /\ IntentOf(cmd) = "open_app" =>
          Get(cmd, "target", "None") \in ApprovedAppValues
    /\ IntentOf(cmd) = "system_command" =>
          Get(cmd, "action", "None") \in SystemActions

\* C18: every command a translator returns with intent open_app has a
\* target of the approved application table, and every one with intent
\* system_command has an action among lock, sleep, shutdown, restart, for
\* every text and every answer of the translation service.
C18_WhitelistContainment ==
    translation.stage = "returned" =>
       \A i \in 1..Len(translation.commands) :
          Whitelisted(translation.commands[i])

\* C19: on the direct path and on the ai_command path, a system_command
\* whose action is not lock, sleep, shutdown or restart is answered
\* {ok: false, error: "Unknown system action: <action>"}, an open_app whose
\* target is not approved is answered with ok false, and no process is
\* spawned for either.
C19_RejectedBeforeSpawn ==
    \A e \in Entries :
       (e.stage = "done" /\ IsObject(e.raw)) =>
          LET data == JsonLoads(e.raw).obj IN
          /\ (TypeOf(data) = "system_command"
                 /\ Get(data, "action", "None") \notin SystemActions) =>
                /\ e.resp = <<[ok |-> FALSE,
                               error |-> "Unknown system action: "
                                            \o Get(data, "action", "None")]>>
                /\ e.backend = <<>>
          /\ (TypeOf(data) = "open_app"
                 /\ Get(data, "target", "None") \notin ApprovedAppValues) =>
                /\ Len(e.resp) = 1
                /\ e.resp[1].ok = FALSE
                /\ e.backend = <<>>
          /\ \A i \in 1..Len(e.results) :
                /\ (IntentOf(e.cmds[i]) = "system_command"
                       /\ ~Whitelisted(e.cmds[i])) =>
                      e.results[i]
                         = [ok |-> FALSE,
                            error |-> "Unknown system action: "
                                         \o Get(e.cmds[i], "action", "None")]
                /\ (IntentOf(e.cmds[i]) = "open_app"
                       /\ ~Whitelisted(e.cmds[i])) =>
                      e.results[i].ok = FALSE
          /\ \A k \in 1..Len(e.backend) :
                /\ e.backend[k].op = "run" =>
                      e.backend[k].action \in SystemActions
                /\ (e.backend[k].op = "Popen" /\ Has(e.backend[k], "app")) =>
                      e.backend[k].app \in ApprovedAppValues

\* An ai_command was translated into a system_command with an action that
\* is not allowed, and the sub-command was dispatched.
C19_Witness ==
    \E e \in Entries :
       /\ AICommandDone(e)
       /\ \E i \in 1..Len(e.results) :
             /\ IntentOf(e.cmds[i]) = "system_command"
             /\ ~Whitelisted(e.cmds[i])

\* The answer of the translation service is not valid JSON once the code
\* fences are removed.
NotValidJSON(ai) == JsonLoads(StrStrip(StripFences(StrStrip(ai)))).err

\* The answer is valid JSON but not a command or a list of commands with
\* recognized intents.
FailsSchema(ai) ==
    LET d == JsonLoads(StrStrip(StripFences(StrStrip(ai)))) IN
    /\ ~d.err
    /\ CASE d.jtype = "dict" -> ~HasHandler(d.obj)
         [] d.jtype = "list" ->
              \/ ~d.dicts
              \/ \E i \in 1..Len(d.items) : ~HasHandler(d.items[i])
         [] OTHER -> TRUE

\* C20: process_command always returns a command sequence, and whenever
\* the processor is disabled, the call to the service fails, or the answer
\* is not valid JSON or fails schema validation, what it returns is exactly
\* what parse_command returns for the same text.
C20_FallbackIsPatternTranslator ==
    (/\ translation.stage = "returned"
     /\ translation.fn = "process_command"
     /\ \/ ~enabled
        \/ translation.ai = "failure"
        \/ NotValidJSON(translation.ai)
        \/ FailsSchema(translation.ai)) =>
       translation.commands = parse_command(translation.text)

----------------------------------------------------------------------------
(* Pointer and text commands *)

\* The handling of the frame of entry e has produced its outcome.
Handled(e) == e.stage \in {"respond", "done"}

\* The decoded object of an object frame
FrameObj(raw) == JsonLoads(raw).obj

\* v brought to the nearest value of lo..hi
Clamp(v, lo, hi) == IF v < lo THEN lo ELSE IF v > hi THEN hi ELSE v

\* The frame is a click or a move whose coordinates lie outside the screen.
PointerOutOfBounds(raw) ==
    /\ IsObject(raw)
    /\ FrameType(raw) \in {"click", "move"}
    /\ Has(FrameObj(raw), "x") /\ Has(FrameObj(raw), "y")
    /\ OutOfBounds(FrameObj(raw).x, FrameObj(raw).y)

\* C21: a click or move command whose coordinates lie outside the screen is
\* not rejected or dropped: its handling makes one backend call, with each
\* coordinate clamped to the nearest value inside the screen.  (Whether the
\* backend call itself then fails is the backend's matter and is left open.)
C21_OutOfBoundsClamped ==
    \A e \in Entries :
       (Handled(e) /\ PointerOutOfBounds(e.raw)) =>
          /\ Len(e.backend) = 1
          /\ e.backend[1].op = (IF FrameType(e.raw) = "click" THEN "click"
                                                              ELSE "moveTo")
          /\ e.backend[1].x = Clamp(FrameObj(e.raw).x, 0, SCREEN_WIDTH)
          /\ e.backend[1].y = Clamp(FrameObj(e.raw).y, 0, SCREEN_HEIGHT)

\* The frame is a text command whose text is empty or missing.
EmptyTextPayload(raw) ==
    /\ IsObject(raw)
    /\ FrameType(raw) \in {"type", "keyboard_type", "ai_command"}
    /\ Get(FrameObj(raw), "text", "") = ""

\* C22: a type, keyboard_type or ai_command frame whose text is empty or
\* missing is answered with one ok:false error envelope and the backend is
\* not called; it is neither handled in silence nor answered ok:true.
C22_EmptyTextRejected ==
    \A e \in Entries :
       (Handled(e) /\ EmptyTextPayload(e.raw)) =>
          /\ e.backend = <<>>
          /\ Len(e.resp) = 1
          /\ e.resp[1].ok = FALSE
          /\ Has(e.resp[1], "error")

----------------------------------------------------------------------------
(* Dispatch keeps no state *)

\* The click command of the spec's example
ClickCommand == "{\"type\":\"click\",\"x\":10,\"y\":20}"

\* The backend call made for the frame of e went through: it neither raised
\* nor was aborted by the failsafe.
BackendSucceeded(e) ==
    /\ e.backend # <<>>
    /\ e.raised = ""
    /\ \A k \in 1..Len(e.resp) :
          e.resp[k] # [ok |-> FALSE, error |-> "Failsafe triggered"]

\* The responses the handling of raw can produce on a session that has
\* dispatched nothing before
FreshResponses(raw) ==
    IF variant = "relay"
    THEN {RelayLoopBody(raw, bk).resp : bk \in BackendOutcomes}
    ELSE {handle_relay_message(raw, enabled, "failure", bks).resp :
             bks \in BackendChoices(raw)}

\* C23: dispatch keeps no state across commands.  While commands are
\* dispatched the session fields stay as they were when the session became
\* Ready; the response to a command is one that the same command gets on a
\* fresh session, whatever was dispatched before it; and every click
\* command whose backend call went through, the first as well as a
\* repetition of it, has its own {ok:true} envelope sent.
C23_StatelessDispatch ==
    /\ pc = "recv"
    /\ transport = "open"
    /\ openConns = 1
    /\ reconnect_delay = (IF variant = "relay" THEN floor_delay * Unit
                                                ELSE ai_reconnect_delay * Unit)
    /\ enabled = (variant = "ai")
    /\ \A e \in Entries :
          /\ Handled(e) => e.resp \in FreshResponses(e.raw)
          /\ (e.stage = "done" /\ e.raw = ClickCommand /\ BackendSucceeded(e)) =>
                e.delivered = <<[ok |-> TRUE]>>

----------------------------------------------------------------------------
(* One connection per process *)

\* C24: at every moment the agent holds at most one open transport
\* connection, and a connection attempt is under way only when the
\* connection before it has been closed (the receive loop was left by its
\* normal end or by an exception): nothing is open while the agent is
\* about to connect.
C24_SingleConnection ==
    /\ openConns <= 1
    /\ pc = "connect" => openConns = 0

\* The agent is Ready on a connection it opened after an earlier one.
C24_Witness ==
    /\ attempt = "retry"
    /\ pc = "recv"
    /\ openConns = 1

----------------------------------------------------------------------------
(* The Pattern Translator: sanitizing and rule order *)

\* PatternMatcher.parse_command has returned.
ParseCommandReturned ==
    translation.stage = "returned" /\ translation.fn = "parse_command"

\* The shell metacharacters ; & | ` $ (the grave accent as Backtick)
ShellMetacharacters == ";&|$" \o Backtick

\* s holds a shell metacharacter
HasMetacharacter(s) ==
    \E i \in 1..Len(s) : CharIn(Char(s, i), ShellMetacharacters)

\* C25: parse_command removes the characters ; & | ` $ from its input
\* before matching, so the target, the text and the original_text of every
\* command it returns are free of them, whatever the input is.
C25_Sanitized ==
    ParseCommandReturned =>
       \A i \in 1..Len(translation.commands) :
          \A f \in {"target", "text", "original_text"} :
             Has(translation.commands[i], f) =>
                ~HasMetacharacter(translation.commands[i][f])

\* The text names an approved application.
NamesApplication(text) == Matches(approved_apps, Normalized(text)) # {}

\* The system actions that occur in the text
ActionsNamed(text) == {a \in SystemActions : Contains(a, Normalized(text))}

\* C26: the rules of the Pattern Translator apply in priority order, the
\* first match winning: a text that names an approved application yields
\* exactly one open_app command whatever else it holds, and a text that
\* names no application but holds one of lock, sleep, shutdown, restart
\* yields one system_command with that action, before the mouse, keyboard
\* and default-typing rules are tried.
C26_RulePriority ==
    ParseCommandReturned =>
       /\ NamesApplication(translation.text) =>
             /\ Len(translation.commands) = 1
             /\ translation.commands[1].intent = "open_app"
       /\ (~NamesApplication(translation.text)
             /\ ActionsNamed(translation.text) # {}) =>
             /\ Len(translation.commands) = 1
             /\ translation.commands[1].intent = "system_command"
             /\ Has(translation.commands[1], "action")
             /\ translation.commands[1].action
                   \in ActionsNamed(translation.text)

====
